---- MODULE Spec2Model ----
(***************************************************************************)
(* One rendering request of LatexFile (latexclippings.py): the chunk       *)
(* assembler, the pdflatex run with its log parser, and the measurement    *)
(* pass over the compiled pages, inside the scratch directory's scope.     *)
(*                                                                         *)
(* Text is a sequence of tokens; the token NL stands for "\n".  A line is  *)
(* a text without NL.  A value that may be None is a sequence: <<>> is     *)
(* None and <<v>> is the value v.                                          *)
(***************************************************************************)
EXTENDS Integers, Sequences, FiniteSets, TLC

VARIABLES
    preamble,      \* the preamble argument of LatexFile.__init__
    clippings,     \* self.clippings: one LatexClipping record per snippet
    chunks,        \* self.chunks
    pc,            \* where the request stands
    temp_dir,      \* the scratch directory: "none", "exists" or "removed"
    dirs_created,  \* how many scratch directories were created
    tex_file,      \* contents of clippings.tex in the scratch directory
    log,           \* pdflatex_process.stdout, a sequence of log lines
    returncode,    \* pdflatex_process.returncode
    exc,           \* the exception that ends the request, if any
    one_ex,        \* local of _load_svgs_from_pdf
    index,         \* loop variable of _load_svgs_from_pdf
    crop_calls     \* inkscape invocations so far: page asked, directory state

vars == <<preamble, clippings, chunks, pc, temp_dir, dirs_created, tex_file,
          log, returncode, exc, one_ex, index, crop_calls>>

----------------------------------------------------------------------------
(* Bounds of the model *)

\* Largest number of snippets in one request.
MaxClippings == 2

\* Page widths and heights reported by inkscape range over 0..MaxDim.
MaxDim == 1

----------------------------------------------------------------------------
(* Text *)

NL == "\n"

None == <<>>

Some(v) == <<v>>

Range(s) == {s[k] : k \in 1..Len(s)}

RECURSIVE SumLen(_)
\* sum(len(c) for c in cs)
SumLen(cs) == IF cs = <<>> THEN 0 ELSE Len(cs[1].lines) + SumLen(Tail(cs))

RECURSIVE split(_)
\* text.split("\n")
split(text) ==
    IF \A k \in 1..Len(text) : text[k] # NL
    THEN <<text>>
    ELSE LET k == CHOOSE k \in 1..Len(text) :
                      /\ text[k] = NL
                      /\ \A m \in 1..(k - 1) : text[m] # NL
         IN  <<SubSeq(text, 1, k - 1)>> \o split(SubSeq(text, k + 1, Len(text)))

RECURSIVE join(_)
\* "\n".join(lines)
join(lines) ==
    IF lines = <<>> THEN <<>>
    ELSE IF Len(lines) = 1 THEN lines[1]
    ELSE lines[1] \o <<NL>> \o join(Tail(lines))

----------------------------------------------------------------------------
(* Chunks *)

CHUNK_HEADER == "SVGFROMLATEX CHUNK HEADER"

\* r"\typeout{" + CHUNK_HEADER + "}"
MarkerLine == <<"\\typeout{", CHUNK_HEADER, "}">>

PageBreakLine == <<"\\newpage">>

\* _LatexChunk.__init__
LatexChunk(name, lines, new_page, clipping_index) ==
    [name           |-> name,
     clipping_index |-> clipping_index,
     lines          |-> <<MarkerLine>>
                        \o (IF new_page THEN <<PageBreakLine>> ELSE <<>>)
                        \o lines,
     source_start   |-> 1 + (IF new_page THEN 1 ELSE 0)]

\* _LatexChunk.__str__
ChunkStr(chunk) == join(chunk.lines)

\* LatexClipping.__init__
LatexClipping(latex) ==
    [latex |-> latex, log |-> None, width |-> None, height |-> None,
     depth |-> None, svg |-> None]

\* The two chunks of the clipping with zero-based index clipping_index.
ClippingChunks(clipping, clipping_index) ==
    LET clipping_lines == split(clipping)
    IN  << LatexChunk(<<"clipping ", ToString(clipping_index)>>,
                      clipping_lines, TRUE, Some(clipping_index)),
           LatexChunk(<<"clipping {clipping_index} (below baseline only)">>,
                      <<<<"\\begin{clipbox}{0 0 0 {\\height}}\\vbox{">>>>
                          \o clipping_lines
                          \o <<<<"}\\end{clipbox}">>>>,
                      TRUE, Some(clipping_index)) >>

RECURSIVE AllClippingChunks(_, _)
\* The for loop of _init_chunks over zip(clippings, itertools.count()).
AllClippingChunks(texts, clipping_index) ==
    IF texts = <<>> THEN <<>>
    ELSE ClippingChunks(texts[1], clipping_index)
         \o AllClippingChunks(Tail(texts), clipping_index + 1)

\* LatexFile._init_chunks
InitChunksOf(pre, texts) ==
    << LatexChunk(<<"preamble">>,
                  split(pre) \o << <<"\\usepackage{trimclip}">>,
                                   <<"\\begin{document}">> >>,
                  FALSE, None),
       LatexChunk(<<"lowercase x">>, << <<"x">> >>, TRUE, None) >>
    \o AllClippingChunks(texts, 0)
    \o << LatexChunk(<<"document end">>, << <<"\\end{document}">> >>,
                     FALSE, None) >>

RECURSIVE StrOfChunks(_)
\* LatexFile.__str__
StrOfChunks(cs) ==
    IF cs = <<>> THEN <<>>
    ELSE IF Len(cs) = 1 THEN ChunkStr(cs[1])
    ELSE ChunkStr(cs[1]) \o <<NL>> \o StrOfChunks(Tail(cs))

----------------------------------------------------------------------------
(* The pdflatex log *)

LogLine(kind, error_msg, line_num) ==
    [kind |-> kind, error_msg |-> error_msg, line_num |-> line_num]

\* A line holding exactly the text written by \typeout{CHUNK_HEADER}.
HeaderLine == LogLine("header", 0, 0)

\* A line "! <error_msg>".
BangLine(error_msg) == LogLine("bang", error_msg, 0)

\* A line "l.<line_num> <line_contents>".
LRefLine(line_num) == LogLine("lref", 0, line_num)

\* Any other line of output.
OtherLine == LogLine("other", 0, 0)

\* One-indexed document lines of the chunk at position c (1-based) of cs.
Span(cs, c) ==
    (SumLen(SubSeq(cs, 1, c - 1)) + 1) .. SumLen(SubSeq(cs, 1, c))

\* What pdflatex can report in the log section of the chunk at position c:
\* an error at a line of that chunk, or at the line after it (TeX reads one
\* line ahead when it scans for an argument), written as the adjacent pair
\* "! msg" / "l.N ..."; or an error whose two lines have other output between
\* them.
ReportSet(cs) ==
    UNION {
        {[chunk |-> c, line_num |-> n, adjacent |-> TRUE] :
             n \in {m \in 1..SumLen(cs) :
                        \/ m \in Span(cs, c)
                        \/ m - 1 \in Span(cs, c)}}
        \cup {[chunk |-> c, line_num |-> SumLen(SubSeq(cs, 1, c)),
               adjacent |-> FALSE]} :
        c \in 1..Len(cs)}

\* The reports of one run, in the order pdflatex writes them, chunk by chunk:
\* none, one, or two (in one section or in two).
ReportSeqs(cs) ==
    {<<>>}
    \cup {<<r>> : r \in ReportSet(cs)}
    \cup {rs \in {<<r, s>> : r \in ReportSet(cs), s \in ReportSet(cs)} :
              rs[1].chunk <= rs[2].chunk}

\* The log lines of the k-th report.
ReportLines(r, k) ==
    IF r.adjacent
    THEN <<BangLine(k), LRefLine(r.line_num)>>
    ELSE <<BangLine(k), OtherLine, LRefLine(r.line_num)>>

RECURSIVE SectionOf(_, _, _)
\* The output between the header of chunk c and the next header.
SectionOf(c, rs, k) ==
    IF k > Len(rs) THEN <<>>
    ELSE (IF rs[k].chunk = c THEN ReportLines(rs[k], k) ELSE <<>>)
         \o SectionOf(c, rs, k + 1)

RECURSIVE OutputFrom(_, _, _)
OutputFrom(cs, rs, c) ==
    IF c > Len(cs) THEN <<>>
    ELSE <<HeaderLine>> \o SectionOf(c, rs, 1) \o OutputFrom(cs, rs, c + 1)

\* stdout of the pdflatex run on the document of cs: the banner, then for
\* each chunk the header its \typeout writes and the chunk's output.
PdflatexOutput(cs, rs) == <<OtherLine>> \o OutputFrom(cs, rs, 1)

----------------------------------------------------------------------------
(* The log parser *)

RECURSIVE SplitAtHeaders(_)
\* log.split(CHUNK_HEADER + "\n")
SplitAtHeaders(lines) ==
    IF \A k \in 1..Len(lines) : lines[k] # HeaderLine
    THEN <<lines>>
    ELSE LET k == CHOOSE k \in 1..Len(lines) :
                      /\ lines[k] = HeaderLine
                      /\ \A m \in 1..(k - 1) : lines[m] # HeaderLine
         IN  <<SubSeq(lines, 1, k - 1)>>
             \o SplitAtHeaders(SubSeq(lines, k + 1, Len(lines)))

\* log_sections after the initialization output is skipped
LogSections(lines) == Tail(SplitAtHeaders(lines))

\* Positions of log_section where _pdflatex_error_regex matches: a "! " line
\* followed at once by an "l.N " line.
Matches(log_section) ==
    {k \in 1..(Len(log_section) - 1) :
        /\ log_section[k].kind = "bang"
        /\ log_section[k + 1].kind = "lref"}

Min(S) == CHOOSE x \in S : \A y \in S : x <= y

Max(S) == CHOOSE x \in S : \A y \in S : x >= y

\* Faulty variant of Search: the rightmost match.
SearchLast(log_section) ==
    IF Matches(log_section) = {} THEN 0 ELSE Max(Matches(log_section))

\* re.search: the leftmost match, 0 when there is none
Search(log_section) ==
    IF Matches(log_section) = {} THEN 0 ELSE Min(Matches(log_section))

\* range(a, b) as a sequence
PyRange(a, b) == [i \in 1..(IF b > a THEN b - a ELSE 0) |-> a + i - 1]

\* Faulty variant of ContextFrom: the window is clipped to the chunk, not to the
\* start of its source.
ContextFromChunkStart(chunk, chunk_line_num) == Max({0, chunk_line_num - 2})

\* First line of the context window (zero-indexed, inclusive).
ContextFrom(chunk, chunk_line_num) ==
    Max({chunk.source_start, chunk_line_num - 2})

\* End of the context window (zero-indexed, exclusive).
ContextTo(chunk, chunk_line_num) ==
    Min({Len(chunk.lines), chunk_line_num + 2 + 1})

\* prefix + chunk.lines[i]
ContextLine(chunk, chunk_line_num, i) ==
    <<IF i = chunk_line_num THEN "> " ELSE "  ">> \o chunk.lines[i + 1]

\* Faulty variant of ChunkLineNum: the earlier chunks are not subtracted.
ChunkLineNumAbsolute(cs, chunk_index, line_num) == line_num - 1

\* chunk_line_num of lines 136-138
ChunkLineNum(cs, chunk_index, line_num) ==
    (line_num - 1) - SumLen(SubSeq(cs, 1, chunk_index))

\* display_line_num of line 152
DisplayLineNum(chunk, chunk_line_num) ==
    chunk_line_num - chunk.source_start + 1

NoExc == [type |-> "none"]

\* The LatexError raised for a match in the section of cs[chunk_index + 1].
LatexError(cs, chunk_index, error_msg, line_num) ==
    LET chunk == cs[chunk_index + 1]
        chunk_line_num == ChunkLineNum(cs, chunk_index, line_num)
        window == PyRange(ContextFrom(chunk, chunk_line_num),
                          ContextTo(chunk, chunk_line_num))
        context_lines == [k \in 1..Len(window) |->
                             ContextLine(chunk, chunk_line_num, window[k])]
    IN  [type           |-> "LatexError",
         clipping_index |-> chunk.clipping_index,
         location       |-> chunk.name,
         line_num       |-> DisplayLineNum(chunk, chunk_line_num),
         error_msg      |-> error_msg,
         context        |-> join(context_lines)]

\* The assignment of lines 122-128: the section of the first chunk of a
\* clipping becomes that clipping's log (kept as the section's index).
AssignLog(clips, chunk, chunk_index) ==
    IF chunk.clipping_index # None
       /\ clips[chunk.clipping_index[1] + 1].log = None
    THEN [clips EXCEPT ![chunk.clipping_index[1] + 1].log = Some(chunk_index)]
    ELSE clips

RECURSIVE ParseLoop(_, _, _, _)
\* The for loop of _parse_pdflatex_log from chunk_index on: the clippings
\* when it stops, and the LatexError it raised (NoExc when it ran through).
ParseLoop(cs, log_sections, clips, chunk_index) ==
    IF chunk_index >= Len(cs) \/ chunk_index >= Len(log_sections)
    THEN [clippings |-> clips, exc |-> NoExc]
    ELSE LET chunk == cs[chunk_index + 1]
             log_section == log_sections[chunk_index + 1]
             assigned == AssignLog(clips, chunk, chunk_index)
             match == Search(log_section)
         IN  IF match # 0
             THEN [clippings |-> assigned,
                   exc |-> LatexError(cs, chunk_index,
                                      log_section[match].error_msg,
                                      log_section[match + 1].line_num)]
             ELSE ParseLoop(cs, log_sections, assigned, chunk_index + 1)

\* LatexFile._parse_pdflatex_log
ParsePdflatexLog(cs, clips, lines) ==
    ParseLoop(cs, LogSections(lines), clips, 0)

----------------------------------------------------------------------------
(* The cropping tool *)

\* _SVG.__init__; the source of a page's image is named by the page.
SVG(width, height, source) ==
    [width |-> width, height |-> height, source |-> source]

\* What _cropped_pdf_page(pdf_path, page) can return when inkscape succeeds.
CroppedPages(page) ==
    {SVG(w, h, page) : w \in 0..MaxDim, h \in 0..MaxDim}

\* One inkscape invocation, as the outside sees it.
CropCall(page) == [page |-> page, temp_dir |-> temp_dir]

\* a / b on floats, kept as the pair of its operands
Quotient(a, b) == <<a, b>>

CalledProcessError == [type |-> "CalledProcessError"]

ZeroDivisionError == [type |-> "ZeroDivisionError"]

ValueError(payload) == [type |-> "ValueError", payload |-> payload]

----------------------------------------------------------------------------
(* The request *)

DefaultPreamble == <<"\\documentclass{minimal}">>

Preambles ==
    {DefaultPreamble, DefaultPreamble \o <<NL, "\\usepackage{amsmath}">>}

\* Snippets: "a" and "a\nb".
Texts == {<<"a">>, <<"a", NL, "b">>}

ClippingLists == UNION {[1..n -> Texts] : n \in 0..MaxClippings}

\* LatexFile.__init__ up to the call of _init_chunks
Init ==
    /\ preamble \in Preambles
    /\ \E texts \in ClippingLists :
           clippings = [k \in 1..Len(texts) |-> LatexClipping(texts[k])]
    /\ chunks = <<>>
    /\ pc = "init_chunks"
    /\ temp_dir = "none"
    /\ dirs_created = 0
    /\ tex_file = None
    /\ log = <<>>
    /\ returncode = None
    /\ exc = NoExc
    /\ one_ex = None
    /\ index = 0
    /\ crop_calls = <<>>

\* self._init_chunks(preamble, clippings)
InitChunks ==
    /\ pc = "init_chunks"
    /\ chunks' = InitChunksOf(preamble,
                              [k \in 1..Len(clippings) |-> clippings[k].latex])
    /\ pc' = "enter"
    /\ UNCHANGED <<preamble, clippings, temp_dir, dirs_created, tex_file, log,
                   returncode, exc, one_ex, index, crop_calls>>

\* _render: entering the with block creates the scratch directory
EnterTempDir ==
    /\ pc = "enter"
    /\ temp_dir' = "exists"
    /\ dirs_created' = dirs_created + 1
    /\ pc' = "pdflatex"
    /\ UNCHANGED <<preamble, clippings, chunks, tex_file, log, returncode,
                   exc, one_ex, index, crop_calls>>

\* Where _render goes on after _pdflatex: the measurement pass when it
\* returned, out of the with block when it raised.
AfterPdflatex(e) == IF e = NoExc THEN "load_ref" ELSE "exit"

\* Faulty variant of PdflatexRaises: the return code is not checked.
PdflatexRaisesUnchecked(parsed, rc, lines) == parsed

\* Faulty variant of PdflatexRaises: with return code 0 a pattern found in the log is
\* no error.
PdflatexRaisesOnFailureOnly(parsed, rc, lines) ==
    IF rc = 0 THEN NoExc
    ELSE IF parsed # NoExc THEN parsed
    ELSE ValueError(lines)

\* What _pdflatex raises for a run with this return code whose log made the
\* parser raise parsed (NoExc when it returns the path of the PDF).
PdflatexRaises(parsed, rc, lines) ==
    IF parsed # NoExc THEN parsed
    ELSE IF rc # 0 THEN ValueError(lines)
    ELSE NoExc

\* LatexFile._pdflatex, lines 78-80: write clippings.tex
WriteTexFile ==
    /\ pc = "pdflatex"
    /\ tex_file' = Some(StrOfChunks(chunks))
    /\ pc' = "run"
    /\ UNCHANGED <<preamble, clippings, chunks, temp_dir, dirs_created, log,
                   returncode, exc, one_ex, index, crop_calls>>

\* LatexFile._pdflatex, lines 82-91: run pdflatex, which reads the file and
\* writes its log to stdout.
RunPdflatex ==
    /\ pc = "run"
    /\ \E rs \in ReportSeqs(chunks), rc \in {0, 1} :
           /\ log' = PdflatexOutput(chunks, rs)
           /\ returncode' = Some(rc)
    /\ pc' = "parse"
    /\ UNCHANGED <<preamble, clippings, chunks, temp_dir, dirs_created,
                   tex_file, exc, one_ex, index, crop_calls>>

\* LatexFile._pdflatex, lines 93-100: parse the log, check the return code.
\* The captured output dies with the frame when the method returns; a
\* raised exception keeps the frame.
ParseAndCheck ==
    /\ pc = "parse"
    /\ LET parsed == ParsePdflatexLog(chunks, clippings, log)
           raised == PdflatexRaises(parsed.exc, returncode[1], log)
       IN  /\ clippings' = parsed.clippings
           /\ exc' = raised
           /\ log' = IF raised = NoExc THEN <<>> ELSE log
           /\ pc' = AfterPdflatex(raised)
    /\ UNCHANGED <<preamble, chunks, temp_dir, dirs_created, tex_file,
                   returncode, one_ex, index, crop_calls>>

\* Where _load_svgs_from_pdf goes on after the iteration for clipping i of
\* n (i = 0: after line 160): the next iteration, or it returns to _render,
\* which leaves the with block.
AfterIteration(i, n) == IF i < n THEN "load_loop" ELSE "exit"

\* _load_svgs_from_pdf, line 160: the reference page
LoadOneEx ==
    /\ pc = "load_ref"
    /\ crop_calls' = Append(crop_calls, CropCall(1))
    /\ \/ /\ exc' = CalledProcessError
          /\ pc' = "exit"
          /\ UNCHANGED <<one_ex, index>>
       \/ \E image \in CroppedPages(1) :
              /\ one_ex' = Some(image.height)
              /\ index' = 1
              /\ pc' = AfterIteration(0, Len(clippings))
              /\ UNCHANGED exc
    /\ UNCHANGED <<preamble, clippings, chunks, temp_dir, dirs_created,
                   tex_file, log, returncode>>

\* Faulty variant of FullPage: the reference page is not counted.
FullPageNoReference(i) == 2 * i - 1

\* The pages _load_svgs_from_pdf asks for in the iteration with this index.
FullPage(i) == 2 * i

BelowBaselinePage(i) == 2 * i + 1

\* The assignments of lines 166-169, as far as they get: the record after
\* them and whether a division raised.
Measure(clipping, image_full, image_below_baseline, ex) ==
    LET with_svg == [clipping EXCEPT !.svg = Some(image_full.source)]
    IN  IF ex = 0
        THEN [clipping |-> with_svg, exc |-> ZeroDivisionError]
        ELSE [clipping |->
                  [with_svg EXCEPT
                      !.width  = Some(Quotient(image_full.width, ex)),
                      !.height = Some(Quotient(image_full.height, ex)),
                      !.depth  = Some(Quotient(image_below_baseline.height,
                                               ex))],
              exc |-> NoExc]

\* _load_svgs_from_pdf, lines 162-169: one iteration of the loop
LoadClipping ==
    /\ pc = "load_loop"
    /\ index <= Len(clippings)
    /\ \/ /\ crop_calls' = Append(crop_calls, CropCall(FullPage(index)))
          /\ exc' = CalledProcessError
          /\ pc' = "exit"
          /\ UNCHANGED <<clippings, index>>
       \/ /\ crop_calls' = crop_calls
                 \o <<CropCall(FullPage(index)),
                      CropCall(BelowBaselinePage(index))>>
          /\ \/ /\ exc' = CalledProcessError
                /\ pc' = "exit"
                /\ UNCHANGED <<clippings, index>>
             \/ \E image_full \in CroppedPages(FullPage(index)),
                   image_below_baseline \in
                       CroppedPages(BelowBaselinePage(index)) :
                    LET m == Measure(clippings[index], image_full,
                                     image_below_baseline, one_ex[1])
                    IN  /\ clippings' = [clippings EXCEPT ![index] = m.clipping]
                        /\ exc' = m.exc
                        /\ pc' = IF m.exc = NoExc
                                 THEN AfterIteration(index, Len(clippings))
                                 ELSE "exit"
                        /\ index' = IF m.exc = NoExc THEN index + 1 ELSE index
    /\ UNCHANGED <<preamble, chunks, temp_dir, dirs_created, tex_file, log,
                   returncode, one_ex>>

\* Faulty variant of Cleanup: the directory is removed on the normal path only.
CleanupOnReturnOnly(e) == IF e = NoExc THEN "removed" ELSE "exists"

\* What leaving the with block does to the scratch directory.
Cleanup(e) == "removed"

\* _render: leaving the with block, by return or by exception
ExitTempDir ==
    /\ pc = "exit"
    /\ temp_dir' = Cleanup(exc)
    /\ tex_file' = IF temp_dir' = "removed" THEN None ELSE tex_file
    /\ pc' = "done"
    /\ UNCHANGED <<preamble, clippings, chunks, dirs_created, log, returncode,
                   exc, one_ex, index, crop_calls>>

Next ==
    \/ InitChunks
    \/ EnterTempDir
    \/ WriteTexFile
    \/ RunPdflatex
    \/ ParseAndCheck
    \/ LoadOneEx
    \/ LoadClipping
    \/ ExitTempDir

Spec == Init /\ [][Next]_vars

----------------------------------------------------------------------------
(* svgfromlatex.py: the pages of render *)

\* textwrap.indent(source, "  "): the prefix goes before every line that is
\* not empty
Indent(source) ==
    LET lines == split(source)
    IN  join([k \in 1..Len(lines) |->
                 IF lines[k] = <<>> THEN <<>> ELSE <<"  ">> \o lines[k]])

RECURSIVE GetPagesFrom(_)
GetPagesFrom(sources) ==
    IF sources = <<>> THEN <<>>
    ELSE << sources[1],
            join(<< <<"\\begin{clipbox}{0 0 0 {\\height}}\\vbox{%">>,
                    Indent(sources[1]) \o <<"%">>,
                    <<"}\\end{clipbox}">> >>) >>
         \o GetPagesFrom(Tail(sources))

\* _get_pages
GetPages(sources) == << <<"x">> >> \o GetPagesFrom(sources)

\* The page _inkscape(pdf, page) asks inkscape for.
InkscapePage(page) == page + 1

\* The zero-based indices render takes the images of sources[i] from.
RenderFullIndex(i) == 2 * i + 1

RenderBelowBaselineIndex(i) == 2 * i + 2

----------------------------------------------------------------------------
(* Properties *)

\* The two-line fatal pattern stands at position k of a log section.
FatalPatternAt(section, k) ==
    /\ k + 1 <= Len(section)
    /\ section[k].kind = "bang"
    /\ section[k + 1].kind = "lref"

HasFatalPattern(section) ==
    \E k \in 1..Len(section) : FatalPatternAt(section, k)

\* Positions (1-based) of the chunks whose log section holds the pattern.
FatalChunksOf(secs) ==
    {c \in 1..Len(chunks) : c <= Len(secs) /\ HasFatalPattern(secs[c])}

FatalChunks == FatalChunksOf(LogSections(log))

\* The first fatal pattern of the log in document order: its chunk, the
\* message of its "! " line and the line number of its "l." line.
FirstFatal ==
    LET secs == LogSections(log)
        fatal == FatalChunksOf(secs)
        c == CHOOSE c \in fatal : \A d \in fatal : c <= d
        k == CHOOSE k \in 1..Len(secs[c]) :
                 /\ FatalPatternAt(secs[c], k)
                 /\ \A m \in 1..(k - 1) : ~FatalPatternAt(secs[c], m)
    IN  [chunk |-> c, error_msg |-> secs[c][k].error_msg,
         line_num |-> secs[c][k + 1].line_num]

RECURSIVE Flatten(_)
Flatten(seqs) == IF seqs = <<>> THEN <<>> ELSE seqs[1] \o Flatten(Tail(seqs))

\* The rendered lines of all chunks, in chunk order.
RenderedLines == Flatten([c \in 1..Len(chunks) |-> chunks[c].lines])

\* Number of rendered lines of the chunks before position c.
LinesBefore(c) == Len(Flatten([d \in 1..(c - 1) |-> chunks[d].lines]))

\* The pattern at absolute line L was found in the section of the chunk at
\* position c, and L lies in the span of that chunk.
InSpan(c, L) == L - LinesBefore(c) \in 1..Len(chunks[c].lines)

\* C1: the document written for pdflatex is the chunks' rendered lines joined
\* by newlines in chunk order, and a LatexError raised for the pattern of
\* chunk c at absolute line L inside c's span has
\* line_num = L - (rendered lines of the chunks before c) - c.source_start.
C1_LineOffsetRoundTrip ==
    /\ pc = "run" =>
           /\ tex_file = Some(join(RenderedLines))
           /\ split(tex_file[1]) = RenderedLines
    /\ (exc.type = "LatexError" /\ pc = "exit") =>
           LET ff == FirstFatal
               c == ff.chunk
               L == ff.line_num
           IN  InSpan(c, L) =>
                   /\ exc.line_num = L - LinesBefore(c) - chunks[c].source_start
                   /\ split(tex_file[1])[L] = chunks[c].lines[L - LinesBefore(c)]

\* C1 witness: an error on the second line of the second snippet.
C1_Witness ==
    /\ exc.type = "LatexError"
    /\ pc = "exit"
    /\ FirstFatal.chunk = 5
    /\ InSpan(5, FirstFatal.line_num)
    /\ exc.line_num = 2

\* The clipping index the chunk at position c stands for: snippet i for its
\* two chunks, None for the preamble, the reference glyph and the document end.
SnippetOf(c) ==
    IF c >= 3 /\ c <= 2 * Len(clippings) + 2 THEN Some((c - 3) \div 2) ELSE None

\* C2: when the parser runs on a log with a fatal pattern, a LatexError is
\* raised for the first pattern in document order (lowest chunk, first match
\* of its section), with that chunk's snippet index or None; when no section
\* holds the pattern, no LatexError is raised.
C2_FirstFatalReported ==
    [][pc = "parse" =>
          IF FatalChunks # {}
          THEN LET ff == FirstFatal
               IN  /\ exc'.type = "LatexError"
                   /\ exc'.error_msg = ff.error_msg
                   /\ exc'.location = chunks[ff.chunk].name
                   /\ exc'.clipping_index = SnippetOf(ff.chunk)
                   /\ exc'.line_num = ff.line_num - LinesBefore(ff.chunk)
                                          - chunks[ff.chunk].source_start
                   /\ pc' = "exit"
          ELSE exc'.type # "LatexError"]_vars

\* C2 witness: an error raised for the second snippet while a later section
\* holds the pattern too.
C2_Witness ==
    /\ exc.type = "LatexError"
    /\ pc = "exit"
    /\ exc.clipping_index = Some(1)
    /\ Cardinality(FatalChunks) = 2

C5_PatternWithSuccessIsWarning ==
    [][(pc = "parse" /\ returncode = Some(0) /\ FatalChunks # {}) =>
           (exc'.type = "none" /\ pc' = "load_ref")]_vars

\* C5 amended: a fatal pattern in the log of a run that ended with status 0
\* aborts the request: the LatexError of the first pattern is raised, and
\* the request ends with it without measuring a page.
C5_PatternWithSuccessAborts ==
    [][/\ (pc = "parse" /\ returncode = Some(0) /\ FatalChunks # {}) =>
              /\ exc'.type = "LatexError"
              /\ exc'.error_msg = FirstFatal.error_msg
              /\ pc' = "exit"
       /\ (pc = "exit" /\ exc.type = "LatexError") =>
              /\ pc' = "done"
              /\ exc' = exc
              /\ crop_calls' = <<>>
              /\ \A i \in 1..Len(clippings) : clippings'[i].svg = None]_vars

\* C5 witness: a request that ended with a LatexError after a run with
\* status 0.
C5_Witness ==
    /\ pc = "done"
    /\ returncode = Some(0)
    /\ exc.type = "LatexError"
    /\ Len(clippings) = 2

\* The chunk asks for a page break.
PageBreaking(chunk) == Len(chunk.lines) >= 2 /\ chunk.lines[2] = PageBreakLine

\* The lines of a chunk after its marker and page-break lines.
Body(chunk) ==
    SubSeq(chunk.lines, IF PageBreaking(chunk) THEN 3 ELSE 2, Len(chunk.lines))

\* Positions of the page-breaking chunks, in chunk order.
RECURSIVE PagedFrom(_)
PagedFrom(c) ==
    IF c > Len(chunks) THEN <<>>
    ELSE (IF PageBreaking(chunks[c]) THEN <<c>> ELSE <<>>) \o PagedFrom(c + 1)

\* The original lines of snippet i (zero-based).
SnippetLines(i) == split(clippings[i + 1].latex)

\* C4: the chunks are the non-paginated preamble, the page-breaking reference
\* glyph, for each snippet i its page-breaking normal render and its
\* page-breaking below-baseline render, and the non-paginated closing chunk;
\* so page 1 is the reference glyph, page 2i+2 snippet i's normal render and
\* page 2i+3 its below-baseline render; and the measurement pass asks
\* inkscape for page 1, then for pages 2i+2 and 2i+3 of snippet i, in order,
\* taking snippet i's image from page 2i+2.
C4_PageChunkCorrespondence ==
    LET n == Len(clippings)
        paged == PagedFrom(1)
    IN  /\ (pc = "enter") =>
               /\ Len(chunks) = 2 * n + 3
               /\ ~PageBreaking(chunks[1])
               /\ chunks[1].clipping_index = None
               /\ ~PageBreaking(chunks[Len(chunks)])
               /\ Body(chunks[Len(chunks)]) = << <<"\\end{document}">> >>
               /\ chunks[Len(chunks)].clipping_index = None
               /\ Len(paged) = 2 * n + 1
               /\ Body(chunks[paged[1]]) = << <<"x">> >>
               /\ chunks[paged[1]].clipping_index = None
               /\ \A i \in 0..(n - 1) :
                      /\ Body(chunks[paged[2 * i + 2]]) = SnippetLines(i)
                      /\ chunks[paged[2 * i + 2]].clipping_index = Some(i)
                      /\ Body(chunks[paged[2 * i + 3]]) =
                             << <<"\\begin{clipbox}{0 0 0 {\\height}}\\vbox{">> >>
                             \o SnippetLines(i)
                             \o << <<"}\\end{clipbox}">> >>
                      /\ chunks[paged[2 * i + 3]].clipping_index = Some(i)
               /\ \A p \in 1..(Len(paged) - 1) : paged[p] < paged[p + 1]
               /\ LET sources == [k \in 1..n |-> clippings[k].latex]
                      pages == GetPages(sources)
                  IN  /\ Len(pages) = 2 * n + 1
                      /\ pages[1] = <<"x">>
                      /\ \A i \in 0..(n - 1) :
                             /\ InkscapePage(RenderFullIndex(i)) = 2 * i + 2
                             /\ pages[2 * i + 2] = sources[i + 1]
                             /\ InkscapePage(RenderBelowBaselineIndex(i))
                                    = 2 * i + 3
                             /\ split(pages[2 * i + 3]) =
                                    << <<"\\begin{clipbox}{0 0 0 {\\height}}\\vbox{%">> >>
                                    \o split(Indent(sources[i + 1]) \o <<"%">>)
                                    \o << <<"}\\end{clipbox}">> >>
        /\ \A k \in 1..Len(crop_calls) : crop_calls[k].page = k
        /\ Len(crop_calls) <= 2 * n + 1
        /\ one_ex # None => Len(crop_calls) >= 1
        /\ \A i \in 0..(n - 1) :
               /\ clippings[i + 1].svg # None =>
                      /\ clippings[i + 1].svg = Some(2 * i + 2)
                      /\ Len(crop_calls) >= 2 * i + 3
               /\ clippings[i + 1].depth # None => Len(crop_calls) >= 2 * i + 3
        /\ (pc = "done" /\ exc = NoExc) =>
               /\ Len(crop_calls) = 2 * n + 1
               /\ \A i \in 0..(n - 1) : clippings[i + 1].depth # None

\* C4 witness: the measurement pass has run through two snippets.
C4_Witness ==
    /\ pc = "done"
    /\ exc = NoExc
    /\ Len(clippings) = 2
    /\ clippings[2].svg = Some(4)
    /\ Len(crop_calls) = 5

\* C6: the context of a LatexError raised for chunk c with zero-indexed
\* chunk-relative line n is made of the rendered lines of c with indices from
\* max(c.source_start, n - 2) up to but excluding min(len(c), n + 3), in
\* order; none of them is the marker line or the page-break line; the line
\* with index n carries the mark "> " and every other line two spaces.
C6_ContextWindow ==
    (exc.type = "LatexError" /\ pc = "exit") =>
        LET ff == FirstFatal
            chunk == chunks[ff.chunk]
            n == ff.line_num - 1 - LinesBefore(ff.chunk)
            lo == IF n - 2 > chunk.source_start THEN n - 2
                  ELSE chunk.source_start
            hi == IF n + 3 < Len(chunk.lines) THEN n + 3 ELSE Len(chunk.lines)
            shown == split(exc.context)
        IN  /\ hi > lo
            /\ Len(shown) = hi - lo
            /\ \A k \in 1..Len(shown) :
                   /\ Tail(shown[k]) = chunk.lines[lo + k]
                   /\ Tail(shown[k]) \notin {MarkerLine, PageBreakLine}
                   /\ Head(shown[k]) = (IF lo + k - 1 = n THEN "> " ELSE "  ")

\* C6 witness: an error on the first line of a two-line snippet shows that
\* line, marked, and the next one, and nothing of what precedes them.
C6_Witness ==
    /\ exc.type = "LatexError"
    /\ pc = "exit"
    /\ exc.location = <<"clipping ", "1">>
    /\ exc.line_num = 1
    /\ exc.context = <<"> ", "a", NL, "  ", "b">>

\* A record of which all measurements are set, or none.
Whole(clipping) ==
    \/ /\ clipping.svg # None
       /\ clipping.width # None
       /\ clipping.height # None
       /\ clipping.depth # None
    \/ /\ clipping.svg = None
       /\ clipping.width = None
       /\ clipping.height = None
       /\ clipping.depth = None

\* C7: wherever the measurement pass stops, by return or by exception, every
\* snippet's record has all of svg, width, height and depth set, or none.
C7_NoPartialResult ==
    pc \in {"exit", "done"} => \A i \in 1..Len(clippings) : Whole(clippings[i])

\* C8: one scratch directory is created per request, it is gone when the
\* request has ended, however it ended, and every inkscape invocation found
\* it in place.
C8_ScratchDirectoryScoped ==
    /\ dirs_created <= 1
    /\ temp_dir = "exists" => dirs_created = 1
    /\ pc = "done" => (temp_dir = "removed" /\ dirs_created = 1 /\ tex_file = None)
    /\ \A k \in 1..Len(crop_calls) : crop_calls[k].temp_dir = "exists"

\* C8 witness: a request ended by an inkscape failure on the second page it
\* asked for.
C8_Witness ==
    /\ pc = "done"
    /\ exc.type = "CalledProcessError"
    /\ Len(crop_calls) = 2
    /\ temp_dir = "removed"

\* The caller's lines a chunk is built around: the preamble, the snippet.
SourceLines(c) ==
    IF c = 1 THEN split(preamble)
    ELSE IF SnippetOf(c) # None THEN SnippetLines(SnippetOf(c)[1])
    ELSE <<>>

\* C9: in every chunk the caller's lines start at index source_start of the
\* rendered lines and fit in them; so an error on line j+1 of the snippet,
\* reported from either chunk of the snippet, has line_num = j + 1.
C9_SourceStartIsSourceOffset ==
    /\ \A c \in 1..Len(chunks) :
           LET src == SourceLines(c)
           IN  /\ chunks[c].source_start + Len(src) <= Len(chunks[c].lines)
               /\ \A j \in 0..(Len(src) - 1) :
                      chunks[c].lines[chunks[c].source_start + j + 1] = src[j + 1]
    /\ (exc.type = "LatexError" /\ pc = "exit") =>
           LET ff == FirstFatal
               c == ff.chunk
               n == ff.line_num - 1 - LinesBefore(c)
               first == CHOOSE k \in 0..Len(chunks[c].lines) :
                            SubSeq(chunks[c].lines, k + 1,
                                   k + Len(SourceLines(c))) = SourceLines(c)
           IN  (SnippetOf(c) # None /\ n >= first
                   /\ n < first + Len(SourceLines(c))) =>
                   exc.line_num = n - first + 1

\* C10: a LatexError raised for a pattern whose line lies in the span of its
\* chunk has a line_num between 1 and the number of lines of the chunk's
\* source text.
C10_LineNumInSource ==
    (exc.type = "LatexError" /\ pc = "exit") =>
        LET ff == FirstFatal
        IN  InSpan(ff.chunk, ff.line_num) =>
                /\ exc.line_num >= 1
                /\ exc.line_num <= Len(SourceLines(ff.chunk))

\* LatexError.__str__: "{location}, line {line_num}: {error_msg}\n" followed
\* by the context.
ErrorStr(e) ==
    e.location \o <<", line ", ToString(e.line_num), ": ",
                    ToString(e.error_msg), NL>> \o e.context

\* The location shown in the string form of e: what precedes ", line ".
ShownLocation(e) == SubSeq(ErrorStr(e), 1, Len(e.location))

\* C11: every chunk of snippet i (its normal chunk and its below-baseline
\* chunk) has a name containing the decimal index i; so chunks of different
\* snippets have different names, and the location shown in the string form
\* of a LatexError raised in a snippet's chunk is the name of chunks of that
\* snippet only.
C11_NamesIdentifySnippet ==
    /\ \A c \in 1..Len(chunks) :
           SnippetOf(c) # None =>
               ToString(SnippetOf(c)[1]) \in Range(chunks[c].name)
    /\ \A c, d \in 1..Len(chunks) :
           (SnippetOf(c) # None /\ SnippetOf(d) # None
               /\ SnippetOf(c) # SnippetOf(d)) =>
               chunks[c].name # chunks[d].name
    /\ (exc.type = "LatexError" /\ pc = "exit"
           /\ exc.clipping_index # None) =>
           \A c \in 1..Len(chunks) :
               chunks[c].name = ShownLocation(exc) =>
                   SnippetOf(c) = exc.clipping_index

====
